---------------------------- MODULE Spec2Model ----------------------------
(***************************************************************************)
(* A model of logger.py: AverageMeter, MetersGroup (meters, CSV sink,      *)
(* console line), Logger (routing by key prefix, optional visualization    *)
(* backend) and LogAndDumpCtx.                                             *)
(*                                                                         *)
(* Strings are sequences of one-character strings, so that startswith,     *)
(* slicing, replace and sorted are computed as Python computes them.       *)
(* Numbers are exact fractions [num, den] in lowest terms: the inputs are  *)
(* small non-negative integers, for which Python's float division and      *)
(* float comparison agree with the exact ones, and str()/float() of a      *)
(* float round-trip exactly.  A CSV cell holding a number is modelled by   *)
(* that number.                                                            *)
(***************************************************************************)
EXTENDS Integers, Sequences, FiniteSets, TLC

(***************************************************************************)
(* Bounds of the model.                                                    *)
(***************************************************************************)
\* most console lines (completed dumps) in one run
MaxDumps == 3
\* largest count one meter reaches between two dumps
MaxCount == 2
\* most MetersGroup objects constructed over the same file
MaxInstances == 2
\* most calls the visualization backend receives
MaxSwCalls == 2
\* largest count the AverageMeter on its own reaches
MaxMeterCount == 6

(***************************************************************************)
(* Strings.                                                                *)
(***************************************************************************)
Alphabet ==
    <<"/", "_", "a", "b", "c", "d", "e", "f", "g", "h", "i", "j", "k", "l", "m",
      "n", "o", "p", "q", "r", "s", "t", "u", "v", "w", "x", "y", "z">>

\* the code point order of the characters used
Code(c) == CHOOSE i \in 1..Len(Alphabet) : Alphabet[i] = c

\* s < t in Python's string order: at the first place where they differ, s has
\* ended or has the smaller character
StrLess(s, t) ==
    \E i \in 1..Len(t) :
        /\ \A j \in 1..(i - 1) : j <= Len(s) /\ s[j] = t[j]
        /\ (i > Len(s) \/ Code(s[i]) < Code(t[i]))

\* s.startswith(p)
StartsWith(s, p) == Len(s) >= Len(p) /\ SubSeq(s, 1, Len(p)) = p

\* s[n:]
SliceFrom(s, n) == SubSeq(s, n + 1, Len(s))

\* s.replace('/', '_')
ReplaceSlash(s) == [i \in 1..Len(s) |-> IF s[i] = "/" THEN "_" ELSE s[i]]

\* sorted(S) for a set of strings: the i-th is the one with i - 1 below it
Sorted(S) ==
    [i \in 1..Cardinality(S) |->
        CHOOSE x \in S : Cardinality({y \in S : StrLess(y, x)}) = i - 1]

TRAIN == <<"t", "r", "a", "i", "n">>
EVAL == <<"e", "v", "a", "l">>
EPISODE == <<"e", "p", "i", "s", "o", "d", "e">>
FRAME == <<"f", "r", "a", "m", "e">>
STEP == <<"s", "t", "e", "p">>
EPISODE_LENGTH ==
    <<"e", "p", "i", "s", "o", "d", "e", "_", "l", "e", "n", "g", "t", "h">>
EPISODE_REWARD ==
    <<"e", "p", "i", "s", "o", "d", "e", "_", "r", "e", "w", "a", "r", "d">>
IMITATION_REWARD ==
    <<"i", "m", "i", "t", "a", "t", "i", "o", "n", "_", "r", "e", "w", "a", "r", "d">>
BUFFER_SIZE == <<"b", "u", "f", "f", "e", "r", "_", "s", "i", "z", "e">>
FPS == <<"f", "p", "s">>
TOTAL_TIME == <<"t", "o", "t", "a", "l", "_", "t", "i", "m", "e">>

COMMON_TRAIN_FORMAT ==
    << <<FRAME, "F", "int">>, <<STEP, "S", "int">>, <<EPISODE, "E", "int">>,
       <<EPISODE_LENGTH, "L", "int">>, <<EPISODE_REWARD, "R", "float">>,
       <<IMITATION_REWARD, "R_i", "float">>, <<BUFFER_SIZE, "BS", "int">>,
       <<FPS, "FPS", "float">>, <<TOTAL_TIME, "T", "time">> >>

COMMON_EVAL_FORMAT ==
    << <<FRAME, "F", "int">>, <<STEP, "S", "int">>, <<EPISODE, "E", "int">>,
       <<EPISODE_LENGTH, "L", "int">>, <<EPISODE_REWARD, "R", "float">>,
       <<IMITATION_REWARD, "R_i", "float">>, <<TOTAL_TIME, "T", "time">> >>

(***************************************************************************)
(* Numbers.                                                                *)
(***************************************************************************)
\* the greatest common divisor, for a >= 0 and b >= 1
GCD(a, b) ==
    CHOOSE g \in 1..b :
        /\ a % g = 0 /\ b % g = 0
        /\ \A h \in (g + 1)..b : a % h # 0 \/ b % h # 0

\* a / b as a float, for a >= 0 and b >= 1
Div(a, b) == LET g == GCD(a, b) IN [num |-> a \div g, den |-> b \div g]

Num(i) == [num |-> i, den |-> 1]

\* x >= y
GE(x, y) == x.num * y.den >= y.num * x.den

\* x < y
LT(x, y) == x.num * y.den < y.num * x.den

\* int(x), for x >= 0
Trunc(x) == x.num \div x.den

Max(a, b) == IF a >= b THEN a ELSE b

(***************************************************************************)
(* AverageMeter.  wsum is a history field: the n-weighted total of the     *)
(* values passed to update, which the code does not keep.                  *)
(***************************************************************************)
NewAverageMeter == [sum |-> 0, count |-> 0, wsum |-> 0]

AM_update(m, value, n) ==
    [sum |-> m.sum + value, count |-> m.count + n, wsum |-> m.wsum + value * n]

AM_value(m) == Div(m.sum, Max(1, m.count))


(***************************************************************************)
(* MetersGroup.  A group is [meters, writer, file]:                        *)
(*   meters  the defaultdict, a function from the keys logged to meters    *)
(*   writer  _csv_writer: open is FALSE for None, else fieldnames is set   *)
(*   file    the CSV file at _csv_file_name: whether it exists and its     *)
(*           lines; a line is [hdr, cells], hdr telling that the cells     *)
(*           are field names and not numbers                               *)
(* An operation returns the new group and err, "ok" or the exception that  *)
(* left it.                                                                *)
(***************************************************************************)
Range(s) == {s[i] : i \in 1..Len(s)}

NoMeters == [k \in {} |-> NewAverageMeter]
NoWriter == [open |-> FALSE, fieldnames |-> <<>>]
NoFile == [exists |-> FALSE, lines |-> <<>>]

NewMetersGroup(file) == [meters |-> NoMeters, writer |-> NoWriter, file |-> file]

MG_log(g, key, value, n) ==
    [g EXCEPT !.meters =
        [k \in DOMAIN g.meters \cup {key} |->
            IF k = key
            THEN AM_update(IF key \in DOMAIN g.meters THEN g.meters[key]
                           ELSE NewAverageMeter, value, n)
            ELSE g.meters[k]]]

\* the record key of a meter key
BareKey(key) ==
    ReplaceSlash(IF StartsWith(key, TRAIN) THEN SliceFrom(key, Len(TRAIN) + 1)
                 ELSE SliceFrom(key, Len(EVAL) + 1))

\* the keys logged are chosen so that no two of them have the same record key
PrimeMeters(meters) ==
    [f \in {BareKey(k) : k \in DOMAIN meters} |->
        AM_value(meters[CHOOSE k \in DOMAIN meters : BareKey(k) = f])]

\* mutant: extrasaction='ignore'
DictWriterRow_ignore(fieldnames, rowdict) ==
    [err |-> "ok",
     line |-> [hdr |-> FALSE,
               cells |-> [i \in 1..Len(fieldnames) |->
                            IF fieldnames[i] \in DOMAIN rowdict
                            THEN rowdict[fieldnames[i]] ELSE [num |-> 0, den |-> 1]]]]

\* csv.DictWriter(fieldnames, restval=0.0).writerow(rowdict): the cells, or the
\* ValueError for a key outside fieldnames
DictWriterRow(fieldnames, rowdict) ==
    IF DOMAIN rowdict \ Range(fieldnames) # {}
    THEN [err |-> "ValueError", line |-> <<>>]
    ELSE [err |-> "ok",
          line |-> [hdr |-> FALSE,
                    cells |-> [i \in 1..Len(fieldnames) |->
                                 IF fieldnames[i] \in DOMAIN rowdict
                                 THEN rowdict[fieldnames[i]] ELSE Num(0)]]]

HeaderLine(fieldnames) == [hdr |-> TRUE, cells |-> fieldnames]

\* csv.DictReader: the first line names the fields of the rows after it
ReaderFieldnames(file) == IF file.lines = <<>> THEN <<>> ELSE file.lines[1].cells

ReaderRow(names, line) ==
    [f \in Range(names) |-> line.cells[CHOOSE j \in 1..Len(names) : names[j] = f]]

ReaderRows(file) ==
    [i \in 1..(Len(file.lines) - 1) |-> ReaderRow(ReaderFieldnames(file), file.lines[i + 1])]

\* mutant: the loop breaks on > instead of >=
KeepOld_gt(rows, episode) ==
    SubSeq(rows, 1,
           CHOOSE n \in 0..Len(rows) :
               /\ \A i \in 1..n : GE(episode, rows[i][EPISODE])
               /\ (n = Len(rows) \/ ~GE(episode, rows[n + 1][EPISODE])))

\* the loop of _remove_old_entries: the rows before the first one whose episode
\* is not below the new record's
KeepOld(rows, episode) ==
    SubSeq(rows, 1,
           CHOOSE n \in 0..Len(rows) :
               /\ \A i \in 1..n : ~GE(rows[i][EPISODE], episode)
               /\ (n = Len(rows) \/ GE(rows[n + 1][EPISODE], episode)))

\* mutant: the rewrite writes no header
WriteRows_noheader(fieldnames, written) ==
    [err |-> IF \A i \in 1..Len(written) : written[i].err = "ok" THEN "ok"
             ELSE "ValueError",
     file |-> [exists |-> TRUE,
               lines |-> [i \in 1..(CHOOSE n \in 0..Len(written) :
                                       /\ \A j \in 1..n : written[j].err = "ok"
                                       /\ (n = Len(written) \/ written[n + 1].err # "ok"))
                            |-> written[i].line]]]

\* writeheader, then the lines written, where written[i] is writerow of the i-th
\* row kept: the loop stops at the first that raises
WriteRows(fieldnames, written) ==
    IF \A i \in 1..Len(written) : written[i].err = "ok"
    THEN [err |-> "ok",
          file |-> [exists |-> TRUE,
                    lines |-> <<HeaderLine(fieldnames)>>
                              \o [i \in 1..Len(written) |-> written[i].line]]]
    ELSE [err |-> "ValueError",
          file |-> [exists |-> TRUE,
                    lines |-> <<HeaderLine(fieldnames)>>
                              \o [i \in 1..((CHOOSE k \in 1..Len(written) :
                                               /\ written[k].err # "ok"
                                               /\ \A j \in 1..(k - 1) : written[j].err = "ok")
                                            - 1) |-> written[i].line]]]

\* the second with block of _remove_old_entries
RewriteKept(fieldnames, kept) ==
    WriteRows(fieldnames, [i \in 1..Len(kept) |-> DictWriterRow(fieldnames, kept[i])])

\* _remove_old_entries on the rows read: row['episode'] and data['episode'] are
\* looked up for the first row, before the file is opened for writing
RemoveOldRows(file, data, names, rows) ==
    IF rows = <<>> THEN RewriteKept(Sorted(DOMAIN data), <<>>)
    ELSE IF EPISODE \notin Range(names) \/ EPISODE \notin DOMAIN data
    THEN [err |-> "KeyError", file |-> file]
    ELSE RewriteKept(Sorted(DOMAIN data), KeepOld(rows, data[EPISODE]))

RemoveOldEntries(file, data) ==
    RemoveOldRows(file, data, ReaderFieldnames(file), ReaderRows(file))

\* self._csv_file = open('a'); self._csv_writer = DictWriter(fieldnames)
OpenWriter(g, fieldnames, lines) ==
    [g EXCEPT !.writer = [open |-> TRUE, fieldnames |-> fieldnames],
              !.file = [exists |-> TRUE, lines |-> lines]]

\* self._csv_writer.writerow(data); flush, where row is the writer's row for data
AppendRow(g, row) ==
    IF row.err # "ok" THEN [err |-> row.err, g |-> g]
    ELSE [err |-> "ok", g |-> [g EXCEPT !.file.lines = Append(@, row.line)]]

WriterRow(g, data) == AppendRow(g, DictWriterRow(g.writer.fieldnames, data))

\* the first dump to a file that exists, old being what _remove_old_entries left
DumpToCsvOld(g, data, old) ==
    IF old.err # "ok" THEN [err |-> old.err, g |-> [g EXCEPT !.file = old.file]]
    ELSE WriterRow(OpenWriter(g, Sorted(DOMAIN data), old.file.lines), data)

\* mutant: should_write_header is not honoured
DumpToCsvNew_noheader(g, data, fieldnames) ==
    [err |-> "ok",
     g |-> [g EXCEPT !.writer = [open |-> TRUE, fieldnames |-> fieldnames],
                     !.file = [exists |-> TRUE,
                               lines |-> <<DictWriterRow(fieldnames, data).line>>]]]

\* the first dump to a file that does not exist: the header is written
DumpToCsvNew(g, data, fieldnames) ==
    WriterRow(OpenWriter(g, fieldnames, <<HeaderLine(fieldnames)>>), data)

DumpToCsv(g, data) ==
    IF g.writer.open THEN WriterRow(g, data)
    ELSE IF g.file.exists THEN DumpToCsvOld(g, data, RemoveOldEntries(g.file, data))
    ELSE DumpToCsvNew(g, data, Sorted(DOMAIN data))

\* f'{value:.04f}', in ten-thousandths
Round4(x) == (2 * 10000 * x.num + x.den) \div (2 * x.den)

\* str(datetime.timedelta(seconds=s)) below one day: H:MM:SS
TimeDelta(s) == <<s \div 3600, (s % 3600) \div 60, s % 60>>

Format(key, value, ty) ==
    CASE ty = "int" -> [err |-> "ok", piece |-> <<key, "int", <<Trunc(value)>> >>]
      [] ty = "float" -> [err |-> "ok", piece |-> <<key, "float", <<Round4(value)>> >>]
      [] ty = "time" ->
            [err |-> "ok", piece |-> <<key, "time", TimeDelta(Trunc(value))>>]
      [] OTHER -> [err |-> "TypeError", piece |-> <<>>]

Colored(text, color) == <<text, color>>

\* print(' | '.join(pieces)), unless a piece raised
PrintPieces(prefix, pieces) ==
    IF \E i \in 1..Len(pieces) : pieces[i].err # "ok"
    THEN [err |-> "TypeError", out |-> <<>>]
    ELSE [err |-> "ok",
          out |-> << [prefix |-> prefix,
                      pieces |-> [i \in 1..Len(pieces) |-> pieces[i].piece]] >>]

DumpToConsole(formating, data, prefix) ==
    PrintPieces(Colored(prefix, IF prefix = TRAIN THEN "yellow" ELSE "green"),
                [i \in 1..Len(formating) |->
                    Format(formating[i][2],
                           IF formating[i][1] \in DOMAIN data
                           THEN data[formating[i][1]] ELSE Num(0),
                           formating[i][3])])

\* data['frame'] = step
SetFrame(data, step) ==
    [f \in DOMAIN data \cup {FRAME} |-> IF f = FRAME THEN Num(step) ELSE data[f]]

\* the record dump builds: the means, and frame = step
DumpData(g, step) == SetFrame(PrimeMeters(g.meters), step)

\* the end of dump, c being what _dump_to_csv did: the console line and the clear
DumpFinish(c, formating, data, prefix) ==
    IF c.err # "ok" THEN [err |-> c.err, g |-> c.g, out |-> <<>>]
    ELSE IF DumpToConsole(formating, data, prefix).err # "ok"
    THEN [err |-> "TypeError", g |-> c.g, out |-> <<>>]
    ELSE [err |-> "ok", g |-> [c.g EXCEPT !.meters = NoMeters],
          out |-> DumpToConsole(formating, data, prefix).out]

DumpRecord(g, formating, data, prefix) ==
    DumpFinish(DumpToCsv(g, data), formating, data, prefix)

\* mutant: no early return on empty meters
MG_dump_always(g, formating, step, prefix) ==
    DumpRecord(g, formating, DumpData(g, step), prefix)

\* dump(step, prefix): the new group, the console lines printed and err
MG_dump(g, formating, step, prefix) ==
    IF DOMAIN g.meters = {} THEN [err |-> "ok", g |-> g, out |-> <<>>]
    ELSE DumpRecord(g, formating, DumpData(g, step), prefix)

(***************************************************************************)
(* State.                                                                  *)
(*   mg        the two groups of the log directory, by scope               *)
(*   console   the lines printed to standard output                        *)
(*   sw        the visualization backend: on is FALSE for None; calls are  *)
(*             the calls it received                                       *)
(*   ctx       the LogAndDumpCtx scope in progress                         *)
(*   am        an AverageMeter of its own                                  *)
(*   instances how many times the objects over the log directory were      *)
(*             constructed                                                 *)
(*   dumped    history: the records built by the dumps of the train        *)
(*             MetersGroup, kept by the MetersGroup operations             *)
(*   last      history: the last call made, its name, the exception that   *)
(*             left it ("ok" for none), its key or scope, its step;        *)
(*             mode is the path a dump took (DumpMode); for the exit of a  *)
(*             LogAndDumpCtx, exc is the                                   *)
(*             exception raised in the scope, dumps how many times         *)
(*             Logger.dump was called and dumpErr how that dump ended      *)
(***************************************************************************)
VARIABLES mg, console, sw, ctx, am, instances, dumped, last

vars == <<mg, console, sw, ctx, am, instances, dumped, last>>

Scopes == {TRAIN, EVAL}

Formating(scope) == IF scope = TRAIN THEN COMMON_TRAIN_FORMAT ELSE COMMON_EVAL_FORMAT

K_train_episode == TRAIN \o <<"/">> \o EPISODE
K_train_a_b == TRAIN \o <<"/", "a", "/", "b">>
K_eval_episode == EVAL \o <<"/">> \o EPISODE
K_bogus_key == <<"b", "o", "g", "u", "s", "/", "k", "e", "y">>

\* inputs: the (key, value) pairs logged, the counts and the steps
Values == {1, 3}
MGInputs == ({K_train_episode} \X Values) \cup {<<K_train_a_b, 7>>}
Counts == {1}
Steps == {5}

NoCtx == [open |-> FALSE, step |-> 0, ty |-> <<>>, exc |-> "none", dumps |-> 0]

Last(op, err, key, step) ==
    [op |-> op, err |-> err, key |-> key, step |-> step, mode |-> "none",
     exc |-> "none", dumps |-> 0, dumpErr |-> "ok"]

\* the path dump takes in group g: it returns at once ("early"), its writer is
\* open ("open"), or this is the first dump of the object, to a file that exists
\* ("old") or does not ("new")
DumpMode(g) ==
    IF DOMAIN g.meters = {} THEN "early"
    ELSE IF g.writer.open THEN "open"
    ELSE IF g.file.exists THEN "old" ELSE "new"

Init ==
    /\ mg = [s \in Scopes |-> NewMetersGroup(NoFile)]
    /\ console = <<>>
    /\ sw = [on |-> FALSE, calls |-> <<>>]
    /\ ctx = NoCtx
    /\ am = NewAverageMeter
    /\ instances = 1
    /\ dumped = <<>>
    /\ last = Last("init", "ok", <<>>, 0)

(***************************************************************************)
(* The operations of one MetersGroup, the train group.                     *)
(***************************************************************************)
MGLog(key, value, n) ==
    /\ \E g \in {MG_log(mg[TRAIN], key, value, n)} :
           /\ g.meters[key].count <= MaxCount
           /\ mg' = [mg EXCEPT ![TRAIN] = g]
    /\ last' = Last("log", "ok", key, 0)
    /\ UNCHANGED <<console, sw, ctx, am, instances, dumped>>

MGDump(step, prefix) ==
    /\ Len(dumped) < MaxDumps
    /\ \E r \in {MG_dump(mg[TRAIN], Formating(TRAIN), step, prefix)} :
           /\ mg' = [mg EXCEPT ![TRAIN] = r.g]
           /\ console' = console \o r.out
           /\ last' = [Last("dump", r.err, prefix, step)
                          EXCEPT !.mode = DumpMode(mg[TRAIN])]
    /\ dumped' = IF DOMAIN mg[TRAIN].meters = {} THEN dumped
                 ELSE Append(dumped, DumpData(mg[TRAIN], step))
    /\ UNCHANGED <<sw, ctx, am, instances>>

\* a new MetersGroup over the same file: the program was started again
MGConstruct ==
    /\ instances < MaxInstances
    /\ instances' = instances + 1
    /\ mg' = [mg EXCEPT ![TRAIN] = NewMetersGroup(mg[TRAIN].file)]
    /\ last' = Last("construct", "ok", <<>>, 0)
    /\ UNCHANGED <<console, sw, ctx, am, dumped>>

Next ==
    \/ \E kv \in MGInputs, n \in Counts : MGLog(kv[1], kv[2], n)
    \/ \E step \in Steps : MGDump(step, TRAIN)
    \/ MGConstruct

Spec == Init /\ [][Next]_vars

(***************************************************************************)
(* One AverageMeter on its own.                                            *)
(***************************************************************************)
MeterValues == {1, 2, 3}
MeterCounts == {1, 2}

AMUpdate(value, n) ==
    /\ am.count + n <= MaxMeterCount
    /\ am' = AM_update(am, value, n)
    /\ last' = Last("update", "ok", <<>>, n)
    /\ UNCHANGED <<mg, console, sw, ctx, instances, dumped>>

NextMeter == \E value \in MeterValues, n \in MeterCounts : AMUpdate(value, n)

SpecMeter == Init /\ [][NextMeter]_vars

(***************************************************************************)
(* Logger.  A value logged is [tensor, v]: a torch.Tensor holding v, or    *)
(* the number v.  None, as the ty of dump, is the empty sequence.          *)
(***************************************************************************)
None == <<>>

Item(value) == value.v

HasScopePrefix(key) == StartsWith(key, TRAIN) \/ StartsWith(key, EVAL)

TrySwLog(w, key, value, step) ==
    IF w.on THEN [w EXCEPT !.calls = Append(@, <<"add_scalar", key, value, step>>)]
    ELSE w

TrySwLogHistogram(w, key, histogram, step) ==
    IF w.on THEN [w EXCEPT !.calls = Append(@, <<"add_histogram", key, histogram, step>>)]
    ELSE w

\* Logger.log on the groups m and the backend w
LogTo(m, w, scope, key, v, step) ==
    [err |-> "ok",
     mg |-> [m EXCEPT ![scope] = MG_log(m[scope], key, v, 1)],
     sw |-> TrySwLog(w, key, v, step)]

\* mutant: the assertion is not made
Logger_log_noassert(m, w, key, value, step) ==
    LogTo(m, w, IF StartsWith(key, TRAIN) THEN TRAIN ELSE EVAL, key,
          IF value.tensor THEN Item(value) ELSE value.v, step)

Logger_log(m, w, key, value, step) ==
    IF ~HasScopePrefix(key) THEN [err |-> "AssertionError", mg |-> m, sw |-> w]
    ELSE LogTo(m, w, IF StartsWith(key, TRAIN) THEN TRAIN ELSE EVAL, key,
               IF value.tensor THEN Item(value) ELSE value.v, step)

\* Logger.dump on the groups m: eval first, then train; an exception of the
\* first dump leaves before the second
DumpBoth(e, t) ==
    [err |-> IF e.err # "ok" THEN e.err ELSE t.err,
     mg |-> [s \in Scopes |-> IF s = EVAL THEN e.g ELSE t.g],
     out |-> e.out \o t.out]

DumpTrain(m, step, ty, e) ==
    DumpBoth(e, IF e.err = "ok" /\ (ty = None \/ ty = TRAIN)
                THEN MG_dump(m[TRAIN], Formating(TRAIN), step, TRAIN)
                ELSE [err |-> "ok", g |-> m[TRAIN], out |-> <<>>])

Logger_dump(m, step, ty) ==
    DumpTrain(m, step, ty,
              IF ty = None \/ ty = EVAL
              THEN MG_dump(m[EVAL], Formating(EVAL), step, EVAL)
              ELSE [err |-> "ok", g |-> m[EVAL], out |-> <<>>])

\* self._should_log(step, log_frequency): class Logger defines no _should_log and
\* has no base class but object, so the attribute lookup raises
ShouldLog(step, log_frequency) == [err |-> "AttributeError", pass |-> FALSE]

Logger_log_histogram(w, key, histogram, step, log_frequency) ==
    IF ShouldLog(step, log_frequency).err # "ok"
    THEN [err |-> ShouldLog(step, log_frequency).err, sw |-> w]
    ELSE IF ~ShouldLog(step, log_frequency).pass THEN [err |-> "ok", sw |-> w]
    ELSE IF ~HasScopePrefix(key) THEN [err |-> "AssertionError", sw |-> w]
    ELSE [err |-> "ok", sw |-> TrySwLogHistogram(w, key, histogram, step)]

(***************************************************************************)
(* LogAndDumpCtx.  Inside the with statement the scope c is open; exc is   *)
(* the exception raised in the body ("none" while it runs), after which    *)
(* only __exit__ follows.                                                  *)
(***************************************************************************)
Ctx_init(step, ty) == [open |-> TRUE, step |-> step, ty |-> ty, exc |-> "none", dumps |-> 0]

\* __call__(key, value)
Ctx_call(m, w, c, key, value) == Logger_log(m, w, c.ty \o <<"/">> \o key, value, c.step)

\* __exit__(*args): the dump; it returns None, so the exception of the body, if
\* any, propagates once the dump has returned; an exception of the dump itself
\* propagates in its place
Propagate(c, d) ==
    [mg |-> d.mg, out |-> d.out, dumps |-> c.dumps + 1, dumpErr |-> d.err,
     err |-> IF d.err # "ok" THEN d.err
             ELSE IF c.exc # "none" THEN c.exc ELSE "ok"]

\* mutant: no dump when the body raised
Ctx_exit_onsuccess(m, c) ==
    IF c.exc # "none"
    THEN [mg |-> m, out |-> <<>>, dumps |-> c.dumps, dumpErr |-> "ok", err |-> c.exc]
    ELSE Propagate(c, Logger_dump(m, c.step, c.ty))

Ctx_exit(m, c) == Propagate(c, Logger_dump(m, c.step, c.ty))

\* inputs of the Logger
LoggerInputs ==
    {<<K_train_episode, 1>>, <<K_train_a_b, 7>>, <<K_eval_episode, 1>>, <<K_bogus_key, 1>>}
CtxInputs == {<<EPISODE, 1>>, <<SliceFrom(K_train_a_b, Len(TRAIN) + 1), 7>>}
Tensor(v) == [tensor |-> TRUE, v |-> v]
Plain(v) == [tensor |-> FALSE, v |-> v]
Tys == {None, TRAIN, EVAL}
Histograms == {<<1, 3>>}
Frequencies == {1}

\* the MaxCount bound on every meter of both groups
CountsWithin(m) ==
    \A s \in Scopes : \A k \in DOMAIN m[s].meters : m[s].meters[k].count <= MaxCount

InitLogger ==
    /\ mg = [s \in Scopes |-> NewMetersGroup(NoFile)]
    /\ console = <<>>
    /\ sw \in {[on |-> use_tb, calls |-> <<>>] : use_tb \in BOOLEAN}
    /\ ctx = NoCtx
    /\ am = NewAverageMeter
    /\ instances = 1
    /\ dumped = <<>>
    /\ last = Last("init", "ok", <<>>, 0)

LoggerLog(key, value, step) ==
    /\ ~ctx.open
    /\ \E r \in {Logger_log(mg, sw, key, value, step)} :
           /\ CountsWithin(r.mg)
           /\ Len(r.sw.calls) <= MaxSwCalls
           /\ mg' = r.mg
           /\ sw' = r.sw
           /\ last' = Last("logger_log", r.err, key, step)
    /\ UNCHANGED <<console, ctx, am, instances, dumped>>

LoggerDump(step, ty) ==
    /\ ~ctx.open
    /\ \E r \in {Logger_dump(mg, step, ty)} :
           /\ Len(console \o r.out) <= MaxDumps
           /\ mg' = r.mg
           /\ console' = console \o r.out
           /\ last' = Last("logger_dump", r.err, ty, step)
    /\ UNCHANGED <<sw, ctx, am, instances, dumped>>

LoggerLogHistogram(key, histogram, step, log_frequency) ==
    /\ ~ctx.open
    /\ \E r \in {Logger_log_histogram(sw, key, histogram, step, log_frequency)} :
           /\ Len(r.sw.calls) <= MaxSwCalls
           /\ sw' = r.sw
           /\ last' = Last("log_histogram", r.err, key, step)
    /\ UNCHANGED <<mg, console, ctx, am, instances, dumped>>

\* with logger.log_and_dump_ctx(step, ty) as log:
CtxEnter(step, ty) ==
    /\ ~ctx.open
    /\ ctx' = Ctx_init(step, ty)
    /\ last' = Last("ctx_enter", "ok", ty, step)
    /\ UNCHANGED <<mg, console, sw, am, instances, dumped>>

\* log(key, value) in the body
CtxCall(key, value) ==
    /\ ctx.open /\ ctx.exc = "none"
    /\ \E r \in {Ctx_call(mg, sw, ctx, key, value)} :
           /\ CountsWithin(r.mg)
           /\ Len(r.sw.calls) <= MaxSwCalls
           /\ mg' = r.mg
           /\ sw' = r.sw
           /\ ctx' = [ctx EXCEPT !.exc = IF r.err = "ok" THEN "none" ELSE r.err]
           /\ last' = Last("ctx_call", r.err, ctx.ty \o <<"/">> \o key, ctx.step)
    /\ UNCHANGED <<console, am, instances, dumped>>

\* the caller's code in the body raises
CtxRaise ==
    /\ ctx.open /\ ctx.exc = "none"
    /\ ctx' = [ctx EXCEPT !.exc = "Exception"]
    /\ last' = Last("ctx_raise", "Exception", ctx.ty, ctx.step)
    /\ UNCHANGED <<mg, console, sw, am, instances, dumped>>

\* the with statement is left, by the end of the body or by its exception
CtxExit ==
    /\ ctx.open
    /\ \E r \in {Ctx_exit(mg, ctx)} :
           /\ Len(console \o r.out) <= MaxDumps
           /\ mg' = r.mg
           /\ console' = console \o r.out
           /\ last' = [Last("ctx_exit", r.err, ctx.ty, ctx.step)
                          EXCEPT !.mode = DumpMode(mg[ctx.ty]), !.exc = ctx.exc,
                                 !.dumps = r.dumps, !.dumpErr = r.dumpErr]
    /\ ctx' = NoCtx
    /\ UNCHANGED <<sw, am, instances, dumped>>

NextLogger ==
    \/ \E kv \in LoggerInputs, step \in Steps :
          LoggerLog(kv[1], Plain(kv[2]), step) \/ LoggerLog(kv[1], Tensor(kv[2]), step)
    \/ \E step \in Steps, ty \in Tys : LoggerDump(step, ty)
    \/ \E kv \in LoggerInputs, h \in Histograms, step \in Steps, f \in Frequencies :
          LoggerLogHistogram(kv[1], h, step, f)
    \/ \E step \in Steps, ty \in Scopes : CtxEnter(step, ty)
    \/ \E kv \in CtxInputs : CtxCall(kv[1], Plain(kv[2]))
    \/ CtxRaise
    \/ CtxExit

SpecLogger == InitLogger /\ [][NextLogger]_vars

(***************************************************************************)
(* Properties.                                                             *)
(***************************************************************************)
TrainGroup == mg[TRAIN]
TrainFile == mg[TRAIN].file

\* the record the dump of this step builds
NewData == DumpData(mg[TRAIN], last'.step)

\* this step is a dump of the train MetersGroup that did not return at once
IsDump == last'.op = "dump" /\ last'.mode # "early"

HasEpisodes(file) == file.exists /\ EPISODE \in Range(ReaderFieldnames(file))

\* the episode column of the data rows
Episodes(file) == [i \in 1..Len(ReaderRows(file)) |-> ReaderRows(file)[i][EPISODE]]

StrictlyIncreasing(q) == \A i \in 1..(Len(q) - 1) : LT(q[i], q[i + 1])

HeaderCount(file) == Cardinality({i \in 1..Len(file.lines) : file.lines[i].hdr})

\* names holds the elements of S in ascending order
IsSortedOf(names, S) ==
    /\ Range(names) = S /\ Len(names) = Cardinality(S)
    /\ \A i \in 1..(Len(names) - 1) : StrLess(names[i], names[i + 1])

\* the row of record d under the header names, 0.0 for a field d omits
RowOf(names, d) ==
    [hdr |-> FALSE,
     cells |-> [j \in 1..Len(names) |->
                  IF names[j] \in DOMAIN d THEN d[names[j]] ELSE Num(0)]]

\* C1, as claimed: the data rows of the CSV file always have strictly increasing
\* episode values
C1_Original == HasEpisodes(TrainFile) => StrictlyIncreasing(Episodes(TrainFile))

\* C1, amended: a dump that completes on a file whose rows had strictly
\* increasing episodes leaves them strictly increasing if it is the first dump of
\* its MetersGroup (which removes the rows from the first one with episode >= the
\* new value on) or if the new episode is above the last row's; a later dump of the
\* same MetersGroup removes no row, it only appends
C1_Amended ==
    [][(/\ IsDump /\ last'.err = "ok"
        /\ HasEpisodes(mg'[TRAIN].file)
        /\ (HasEpisodes(TrainFile) => StrictlyIncreasing(Episodes(TrainFile))))
       => /\ last'.mode # "open" => StrictlyIncreasing(Episodes(mg'[TRAIN].file))
          /\ last'.mode = "open" =>
                /\ Len(mg'[TRAIN].file.lines) = Len(TrainFile.lines) + 1
                /\ SubSeq(mg'[TRAIN].file.lines, 1, Len(TrainFile.lines)) = TrainFile.lines
                /\ (\/ Len(TrainFile.lines) = 1
                    \/ LT(Episodes(TrainFile)[Len(TrainFile.lines) - 1],
                          Episodes(mg'[TRAIN].file)[Len(TrainFile.lines)]))
                   => StrictlyIncreasing(Episodes(mg'[TRAIN].file))]_vars

\* three dumps completed, the last the first dump of a second MetersGroup, which
\* removed a row: two rows are left
C1_Witness ==
    /\ last.op = "dump" /\ last.mode = "old" /\ last.err = "ok"
    /\ Len(console) = 3 /\ Len(TrainFile.lines) = 3
    /\ HasEpisodes(TrainFile) /\ StrictlyIncreasing(Episodes(TrainFile))

\* C2, as claimed: value() is the n-weighted total of the values divided by the
\* total count
C2_Claim == am.count >= 1 => AM_value(am) = Div(am.wsum, am.count)

\* C5: a dump that completes leaves the meters empty, and a dump of a group
\* whose meters are empty changes neither the file, the writer nor the console
C5_DumpClearsThenNoop ==
    [][last'.op = "dump"
       => /\ last'.err = "ok" => DOMAIN mg'[TRAIN].meters = {}
          /\ DOMAIN mg[TRAIN].meters = {}
                => last'.err = "ok" /\ mg' = mg /\ console' = console]_vars

\* a dump returned at once after an earlier dump had completed
C5_Witness ==
    /\ last.op = "dump" /\ last.mode = "early"
    /\ Len(console) >= 1 /\ TrainFile.exists

\* the records dumped so far have the same field names, episode among them, and
\* strictly increasing episodes
SameFieldsIncreasing(d) ==
    /\ Len(d) >= 1
    /\ EPISODE \in DOMAIN d[1]
    /\ \A i \in 1..Len(d) : DOMAIN d[i] = DOMAIN d[1]
    /\ \A i \in 1..(Len(d) - 1) : LT(d[i][EPISODE], d[i + 1][EPISODE])

\* C6: from no file, dumps with the same field names and strictly increasing
\* episodes leave one header, the sorted field names of the first record, then
\* one row per dump in dump order
C6_OneRowPerDump ==
    SameFieldsIncreasing(dumped)
    => /\ TrainFile.exists
       /\ Len(TrainFile.lines) = Len(dumped) + 1
       /\ TrainFile.lines[1].hdr
       /\ IsSortedOf(TrainFile.lines[1].cells, DOMAIN dumped[1])
       /\ \A i \in 1..Len(dumped) :
             TrainFile.lines[i + 1] = RowOf(TrainFile.lines[1].cells, dumped[i])

\* three such dumps of three fields, the last by a second MetersGroup
C6_Witness ==
    /\ SameFieldsIncreasing(dumped) /\ Len(dumped) = 3
    /\ Cardinality(DOMAIN dumped[1]) = 3
    /\ instances = 2 /\ last.op = "dump" /\ last.mode = "old"

\* the leading run of an ascending sequence q that is below e
RunBelow(q, e) == SubSeq(q, 1, Cardinality({i \in 1..Len(q) : LT(q[i], e)}))

\* C8, as claimed: the first dump of a MetersGroup to a file with ascending
\* episodes keeps exactly the leading rows with episode below the new record's
\* and appends the new record
C8_Claim ==
    [][(/\ IsDump /\ last'.mode = "old"
        /\ HasEpisodes(TrainFile) /\ StrictlyIncreasing(Episodes(TrainFile))
        /\ EPISODE \in DOMAIN NewData)
       => /\ HasEpisodes(mg'[TRAIN].file)
          /\ Episodes(mg'[TRAIN].file)
                = RunBelow(Episodes(TrainFile), NewData[EPISODE]) \o <<NewData[EPISODE]>>]_vars

C10_FieldSetFixed ==
    [][IsDump
       => /\ (~TrainGroup.writer.open /\ mg'[TRAIN].writer.open)
                => IsSortedOf(mg'[TRAIN].writer.fieldnames, DOMAIN NewData)
          /\ last'.mode = "open"
                => /\ mg'[TRAIN].writer = TrainGroup.writer
                   /\ IF DOMAIN NewData \subseteq Range(TrainGroup.writer.fieldnames)
                      THEN /\ last'.err = "ok"
                           /\ mg'[TRAIN].file.lines
                                 = Append(TrainFile.lines,
                                          RowOf(TrainGroup.writer.fieldnames, NewData))
                           /\ Len(console') = Len(console) + 1
                      ELSE /\ last'.err = "ValueError"
                           /\ mg' = mg
                           /\ console' = console]_vars

\* a dump of an open writer raised ValueError and the meters are still there
C10_Witness ==
    /\ last.op = "dump" /\ last.mode = "open" /\ last.err = "ValueError"
    /\ DOMAIN TrainGroup.meters # {}

\* C3, as claimed: after the exit of a scope, dump was called once, the group of
\* ty has empty meters and an exception of the body has reached the caller
C3_Original ==
    last.op = "ctx_exit"
    => /\ last.dumps = 1
       /\ DOMAIN mg[last.key].meters = {}
       /\ last.exc # "none" => last.err = last.exc

\* C3, amended: on every exit path dump is called once, after the calls of the
\* scope; if that dump completes the group of ty has empty meters and an exception
\* of the body reaches the caller; if the dump raises, its exception is the one that
\* reaches the caller and the meters are kept
C3_Amended ==
    last.op = "ctx_exit"
    => /\ last.dumps = 1
       /\ ~ctx.open
       /\ last.dumpErr = "ok"
             => /\ DOMAIN mg[last.key].meters = {}
                /\ last.err = IF last.exc = "none" THEN "ok" ELSE last.exc
       /\ last.dumpErr # "ok"
             => /\ last.err = last.dumpErr
                /\ DOMAIN mg[last.key].meters # {}

\* a scope that logged was left by an exception of its body: the dump wrote a row
\* and the exception reached the caller
C3_Witness ==
    /\ last.op = "ctx_exit" /\ last.exc = "Exception" /\ last.err = "Exception"
    /\ last.mode = "new" /\ last.dumpErr = "ok"
    /\ Len(mg[last.key].file.lines) = 2

\* the group other than s
Other(s) == IF s = TRAIN THEN EVAL ELSE TRAIN

\* C4: Logger.log of a key with neither prefix raises and changes neither the
\* backend nor a group; a key with prefix train changes the meter of that key
\* in the train group and nothing else of the groups, one with eval likewise
C4_PrefixRouting ==
    [][last'.op \in {"logger_log", "ctx_call"}
       => IF ~StartsWith(last'.key, TRAIN) /\ ~StartsWith(last'.key, EVAL)
          THEN last'.err = "AssertionError" /\ mg' = mg /\ sw' = sw /\ console' = console
          ELSE /\ last'.err = "ok"
               /\ \E s \in Scopes :
                     /\ StartsWith(last'.key, s)
                     /\ mg'[Other(s)] = mg[Other(s)]
                     /\ mg'[s].file = mg[s].file /\ mg'[s].writer = mg[s].writer
                     /\ DOMAIN mg'[s].meters = DOMAIN mg[s].meters \cup {last'.key}
                     /\ mg'[s].meters # mg[s].meters
                     /\ \A k \in DOMAIN mg[s].meters \ {last'.key} :
                           mg'[s].meters[k] = mg[s].meters[k]]_vars

\* a log of a key without prefix raised, with a backend configured that had
\* received a call before
C4_Witness ==
    /\ last.op = "logger_log" /\ last.err = "AssertionError"
    /\ sw.on /\ Len(sw.calls) >= 1

\* C7, as claimed: log_histogram of a key with prefix train or eval never fails
C7_Claim ==
    (last.op = "log_histogram" /\ HasScopePrefix(last.key)) => last.err = "ok"

=============================================================================
